---- MODULE Spec2Model ----
(***************************************************************************)
(* A model of query.py: the ESGF query script that searches for CMIP6      *)
(* historical output, keeps the model groups that have a carbon cycle,     *)
(* keeps one ensemble member per model, and then searches once per model   *)
(* group and concatenates the per-group tables.                            *)
(*                                                                         *)
(* A table (a pandas DataFrame) is a sequence of rows; a row is a record   *)
(* with the fields source_id, member_id, grid_label and variable_id.       *)
(* The catalog library (intake_esgf) and pandas are collaborators of the   *)
(* script: their operations are modelled by what they are documented to    *)
(* do, and a search is a call that is issued, stays outstanding, and then  *)
(* either returns a table or raises.                                       *)
(***************************************************************************)
EXTENDS Integers, Sequences, FiniteSets, TLC

VARIABLES
    pc,          \* position of the script
    cat_df,      \* cat.df: the table of the catalog currently bound to `cat`
    groups,      \* groups.index: the sequence of (source_id, member_id, grid_label)
    idx,         \* position of the for loop in groups.index (1-based)
    dfs,         \* the list dfs
    calls,       \* every call made on the catalog library so far, in order
    outstanding, \* positions in calls of the searches that have not returned
    initial,     \* the table the initial search returned
    responses,   \* the tables the sub-queries returned, in the order returned
    error,       \* the exception that ended the run, "none" while there is none
    arg_df,      \* has_carbon_cycle's argument (the table of one group)
    evaluated,   \* has_carbon_cycle has returned for arg_df
    verdict      \* the value has_carbon_cycle returned

vars == << pc, cat_df, groups, idx, dfs, calls, outstanding, initial,
           responses, error, arg_df, evaluated, verdict >>

scriptVars == << pc, cat_df, groups, idx, dfs, calls, outstanding, initial,
                 responses, error >>

predVars == << arg_df, evaluated, verdict >>

(***************************************************************************)
(* Bounds and input universes.                                             *)
(***************************************************************************)
\* the largest number of distinct groups in the table the initial search returns
MaxGroups == 3

Sources == {"CESM2", "CanESM5"}
Members == {"r1i1p1f1", "r2i1p1f1"}
Grids == {"gn", "gr"}

\* the groups a search can return: both members on the native grid, the first
\* member alone on the regridded one
Triples == {t \in Sources \X Members \X Grids : t[3] = "gr" => t[2] = "r1i1p1f1"}

Range(s) == {s[k] : k \in DOMAIN s}

Row(g, v) ==
    [source_id |-> g[1], member_id |-> g[2], grid_label |-> g[3], variable_id |-> v]

(***************************************************************************)
(* The search filters of the script.                                       *)
(***************************************************************************)
InitialVariableIds ==
    << "cSoilAbove1m", "cSoil", "cVeg", "gpp", "lai", "nbp", "netAtmosLandCO2Flux" >>

InitialSearchKwargs ==
    [experiment_id |-> "historical",
     variable_id |-> InitialVariableIds,
     frequency |-> "mon"]

SubQueryVariableIds ==
    << "burntFractionAll", "cSoilAbove1m", "cSoil", "cVeg", "evspsbl", "fBNF",
       "gpp", "hfls", "hfss", "lai", "mrro", "mrsos", "nbp",
       "netAtmosLandCO2Flux", "pr", "ra", "rh", "hurs", "rlds", "rlus", "rsds",
       "rsus", "snw", "tas", "tasmax", "tasmin", "tsl" >>

\* variant: the per-group search repeats the variable list of the initial search
SubQueryKwargs_initialList(g) ==
    [source_id |-> g[1],
     member_id |-> g[2],
     grid_label |-> g[3],
     experiment_id |-> "historical",
     variable_id |-> InitialVariableIds,
     frequency |-> "mon"]

\* the keyword arguments of the per-group search
SubQueryKwargs(g) ==
    [source_id |-> g[1],
     member_id |-> g[2],
     grid_label |-> g[3],
     experiment_id |-> "historical",
     variable_id |-> SubQueryVariableIds,
     frequency |-> "mon"]

(***************************************************************************)
(* has_carbon_cycle, as the script computes it.                            *)
(***************************************************************************)
isdisjoint(S, L) == S \cap Range(L) = {}

issuperset(S, L) == Range(L) \subseteq S

\* variant: one of cVeg, gpp, lai is enough
has_carbon_cycle_anyOfVeg(df) ==
    LET variables == {df[k].variable_id : k \in DOMAIN df} IN
    IF isdisjoint(variables, << "cSoil", "cSoilAbove1m" >>) THEN FALSE
    ELSE IF isdisjoint(variables, << "nbp", "netAtmosLandCO2Flux" >>) THEN FALSE
    ELSE IF ~isdisjoint(variables, << "cVeg", "gpp", "lai" >>) THEN TRUE
    ELSE FALSE

\* variant: the flux pair is not looked at
has_carbon_cycle_noFluxCheck(df) ==
    LET variables == {df[k].variable_id : k \in DOMAIN df} IN
    IF isdisjoint(variables, << "cSoil", "cSoilAbove1m" >>) THEN FALSE
    ELSE IF issuperset(variables, << "cVeg", "gpp", "lai" >>) THEN TRUE
    ELSE FALSE

\* variant: only the first name of each pair is accepted
has_carbon_cycle_soilOnlyCSoil(df) ==
    LET variables == {df[k].variable_id : k \in DOMAIN df} IN
    IF isdisjoint(variables, << "cSoil" >>) THEN FALSE
    ELSE IF isdisjoint(variables, << "nbp" >>) THEN FALSE
    ELSE IF issuperset(variables, << "cVeg", "gpp", "lai" >>) THEN TRUE
    ELSE FALSE

\* lines 89-100
has_carbon_cycle(df) ==
    LET variables == {df[k].variable_id : k \in DOMAIN df} IN
    IF isdisjoint(variables, << "cSoil", "cSoilAbove1m" >>) THEN FALSE
    ELSE IF isdisjoint(variables, << "nbp", "netAtmosLandCO2Flux" >>) THEN FALSE
    ELSE IF issuperset(variables, << "cVeg", "gpp", "lai" >>) THEN TRUE
    ELSE FALSE

(***************************************************************************)
(* The catalog library's table operations.                                 *)
(***************************************************************************)
GroupKey(row) == << row.source_id, row.member_id, row.grid_label >>

GroupRows(df, g) == SelectSeq(df, LAMBDA row : GroupKey(row) = g)

\* the realization number of an ensemble member: how members are ordered
MemberRank(m) == IF m = "r1i1p1f1" THEN 1 ELSE 2

\* the tables of the groups of df, one per group
GroupTables(df) == {GroupRows(df, GroupKey(df[k])) : k \in DOMAIN df}

\* remove_incomplete(complete): drop every group whose table fails `complete`,
\* a callable given here as a function on the tables it is called on
remove_incomplete(df, complete) ==
    SelectSeq(df, LAMBDA row : complete[GroupRows(df, GroupKey(row))])

\* remove_ensembles(): per (source_id, grid_label) keep the smallest member
remove_ensembles(df) ==
    SelectSeq(df, LAMBDA row :
        \A k \in DOMAIN df :
            (df[k].source_id = row.source_id /\ df[k].grid_label = row.grid_label)
                => MemberRank(row.member_id) <= MemberRank(df[k].member_id))

\* model_groups().index: the distinct groups of df, in first-encountered order
RECURSIVE model_groups(_)
model_groups(df) ==
    IF df = << >> THEN << >>
    ELSE LET g == GroupKey(Head(df)) IN
         << g >> \o model_groups(SelectSeq(Tail(df), LAMBDA row : GroupKey(row) # g))

\* pd.concat(objs) of a non-empty list: the rows of the tables, in list order
RECURSIVE pd_concat(_)
pd_concat(objs) ==
    IF objs = << >> THEN << >> ELSE Head(objs) \o pd_concat(Tail(objs))

(***************************************************************************)
(* What a search can return.                                               *)
(***************************************************************************)
\* the variables a group of the initial result can hold, in row order
VarChoices ==
    { << "cSoil", "cVeg", "gpp", "lai", "netAtmosLandCO2Flux" >>,
      << "cSoil", "cSoilAbove1m", "gpp", "lai", "nbp" >> }

GroupOrders ==
    UNION { {o \in [1..k -> Triples] : \A a, b \in 1..k : a # b => o[a] # o[b]}
            : k \in 1..MaxGroups }

TableOf(g, vs) == [j \in DOMAIN vs |-> Row(g, vs[j])]

RECURSIVE TableFor(_, _)
\* a table the initial search can return: the groups o, in that order, group k
\* holding the variables c[k]; at least one row, the groups distinct
TableFor(o, c) ==
    IF o = << >> THEN << >>
    ELSE TableOf(Head(o), Head(c)) \o TableFor(Tail(o), Tail(c))

ResponseShapes == { << "gpp" >>, << "tas", "gpp" >> }

\* the tables the sub-query of group g can return
Responses(g) == {TableOf(g, s) : s \in ResponseShapes}

(***************************************************************************)
(* The script.                                                             *)
(***************************************************************************)
NoTable == << >>

Init ==
    /\ pc = "start"
    /\ cat_df = NoTable
    /\ groups = << >>
    /\ idx = 0
    /\ dfs = << >>
    /\ calls = << >>
    /\ outstanding = {}
    /\ initial = NoTable
    /\ responses = << >>
    /\ error = "none"
    /\ arg_df = << >>
    /\ evaluated = FALSE
    /\ verdict = FALSE

\* variant: the script goes on while the search is outstanding
SearchBlocks_async(waiting, continuing) == continuing

\* a search call blocks: the script waits at the call until it returns or raises
SearchBlocks(waiting, continuing) == waiting

\* variant: the exception is caught and the loop resumes
Uncaught_swallowed(resume) == resume

\* an exception nothing catches ends the script
Uncaught(resume) == "aborted"

\* variant: the completeness filter is not applied
RemoveIncompleteCall_noFilter(df) == df

\* line 104, first call: cat.remove_incomplete(has_carbon_cycle)
RemoveIncompleteCall(df) ==
    remove_incomplete(df, [t \in GroupTables(df) |-> has_carbon_cycle(t)])

\* line 104, second call: .remove_ensembles()
RemoveEnsemblesCall(df) == remove_ensembles(df)

\* variant: every other entry is skipped
NextIndex_skip(k) == k + 2

\* the for loop takes the entries of groups.index one after the other
NextIndex(k) == k + 1

\* variant: the table is put at the front of the list
AppendDf_prepend(list, df) == << df >> \o list

\* dfs.append(cat.df)

AppendDf(list, df) == Append(list, df)

\* cat = ESGFCatalog().search(experiment_id=..., variable_id=[...], frequency="mon")
IssueInitialSearch ==
    /\ pc = "start"
    /\ calls' = Append(calls, [op |-> "search", kwargs |-> InitialSearchKwargs])
    /\ outstanding' = outstanding \cup {Len(calls) + 1}
    /\ pc' = SearchBlocks("initial_search", "remove_incomplete")
    /\ UNCHANGED << cat_df, groups, idx, dfs, initial, responses, error >>
    /\ UNCHANGED predVars

ReturnInitialSearch ==
    /\ pc = "initial_search"
    /\ \E o \in GroupOrders : \E c \in [DOMAIN o -> VarChoices] :
        /\ cat_df' = TableFor(o, c)
        /\ initial' = TableFor(o, c)
    /\ outstanding' = outstanding \ {Len(calls)}
    /\ pc' = "remove_incomplete"
    /\ UNCHANGED << groups, idx, dfs, calls, responses, error >>
    /\ UNCHANGED predVars

FailInitialSearch ==
    /\ pc = "initial_search"
    /\ outstanding' = outstanding \ {Len(calls)}
    /\ error' = "SearchError"
    /\ pc' = Uncaught("remove_incomplete")
    /\ UNCHANGED << cat_df, groups, idx, dfs, calls, initial, responses >>
    /\ UNCHANGED predVars

RemoveIncomplete ==
    /\ pc = "remove_incomplete"
    /\ cat_df' = RemoveIncompleteCall(cat_df)
    /\ calls' = Append(calls, [op |-> "remove_incomplete"])
    /\ pc' = "remove_ensembles"
    /\ UNCHANGED << groups, idx, dfs, outstanding, initial, responses, error >>
    /\ UNCHANGED predVars

RemoveEnsembles ==
    /\ pc = "remove_ensembles"
    /\ cat_df' = RemoveEnsemblesCall(cat_df)
    /\ calls' = Append(calls, [op |-> "remove_ensembles"])
    /\ pc' = "model_groups"
    /\ UNCHANGED << groups, idx, dfs, outstanding, initial, responses, error >>
    /\ UNCHANGED predVars

\* groups = cat.model_groups(); dfs = []; the for loop starts
ModelGroups ==
    /\ pc = "model_groups"
    /\ groups' = model_groups(cat_df)
    /\ calls' = Append(calls, [op |-> "model_groups"])
    /\ dfs' = << >>
    /\ idx' = 1
    /\ pc' = "loop"
    /\ UNCHANGED << cat_df, outstanding, initial, responses, error >>
    /\ UNCHANGED predVars

\* the loop body's search call for the group at idx
IssueSubQuery ==
    /\ pc = "loop"
    /\ idx <= Len(groups)
    /\ calls' = Append(calls, [op |-> "search", kwargs |-> SubQueryKwargs(groups[idx])])
    /\ outstanding' = outstanding \cup {Len(calls) + 1}
    /\ pc' = SearchBlocks("sub_search", "loop")
    /\ UNCHANGED << cat_df, groups, idx, dfs, initial, responses, error >>
    /\ UNCHANGED predVars

\* the search returns: cat is rebound, dfs.append(cat.df), next group
ReturnSubQuery ==
    /\ pc = "sub_search"
    /\ \E r \in Responses(groups[idx]) :
        /\ cat_df' = r
        /\ dfs' = AppendDf(dfs, r)
        /\ responses' = Append(responses, r)
    /\ outstanding' = outstanding \ {Len(calls)}
    /\ idx' = NextIndex(idx)
    /\ pc' = "loop"
    /\ UNCHANGED << groups, calls, initial, error >>
    /\ UNCHANGED predVars

\* the search raises: nothing catches it
FailSubQuery ==
    /\ pc = "sub_search"
    /\ outstanding' = outstanding \ {Len(calls)}
    /\ error' = "SearchError"
    /\ pc' = Uncaught("loop")
    /\ UNCHANGED << cat_df, groups, idx, dfs, calls, initial, responses >>
    /\ UNCHANGED predVars

\* cat.df = pd.concat(dfs); pd.concat raises ValueError on an empty list
Concat ==
    /\ pc = "loop"
    /\ idx > Len(groups)
    /\ IF dfs = << >>
       THEN /\ error' = "ValueError"
            /\ pc' = "aborted"
            /\ UNCHANGED cat_df
       ELSE /\ cat_df' = pd_concat(dfs)
            /\ pc' = "done"
            /\ UNCHANGED error
    /\ UNCHANGED << groups, idx, dfs, calls, outstanding, initial, responses >>
    /\ UNCHANGED predVars

Next ==
    \/ IssueInitialSearch
    \/ ReturnInitialSearch
    \/ FailInitialSearch
    \/ RemoveIncomplete
    \/ RemoveEnsembles
    \/ ModelGroups
    \/ IssueSubQuery
    \/ ReturnSubQuery
    \/ FailSubQuery
    \/ Concat

Spec == Init /\ [][Next]_vars

(***************************************************************************)
(* has_carbon_cycle on its own: it is called on the table of one group,    *)
(* over every set of the variables of the initial search and one variable  *)
(* outside them, and called again after a further row is added.            *)
(***************************************************************************)
Vocabulary == InitialVariableIds \o << "tas" >>

OneGroup == << "CESM2", "r1i1p1f1", "gn" >>

\* the table of one group that holds exactly the variables V
GroupTable(V) == TableOf(OneGroup, SelectSeq(Vocabulary, LAMBDA v : v \in V))

VarsOf(df) == {df[k].variable_id : k \in DOMAIN df}

PredInit ==
    /\ pc = "start"
    /\ cat_df = NoTable
    /\ groups = << >>
    /\ idx = 0
    /\ dfs = << >>
    /\ calls = << >>
    /\ outstanding = {}
    /\ initial = NoTable
    /\ responses = << >>
    /\ error = "none"
    /\ arg_df \in {GroupTable(V) : V \in SUBSET Range(Vocabulary)}
    /\ evaluated = FALSE
    /\ verdict = FALSE

\* has_carbon_cycle(arg_df) is called and returns
Evaluate ==
    /\ ~evaluated
    /\ verdict' = has_carbon_cycle(arg_df)
    /\ evaluated' = TRUE
    /\ UNCHANGED arg_df
    /\ UNCHANGED scriptVars

\* the group gets a row of a further variable and has_carbon_cycle is called again
AddVariable ==
    /\ evaluated
    /\ \E v \in Range(Vocabulary) \ VarsOf(arg_df) :
        arg_df' = Append(arg_df, Row(OneGroup, v))
    /\ verdict' = has_carbon_cycle(arg_df')
    /\ evaluated' = TRUE
    /\ UNCHANGED scriptVars

PredNext ==
    \/ Evaluate
    \/ AddVariable

PredSpec == PredInit /\ [][PredNext]_vars

(***************************************************************************)
(* Vocabulary of the properties.                                           *)
(***************************************************************************)
\* the completeness rule as the design states it, over a set of variable names
CarbonCycleRule(V) ==
    /\ \E v \in {"cSoil", "cSoilAbove1m"} : v \in V
    /\ \E v \in {"nbp", "netAtmosLandCO2Flux"} : v \in V
    /\ \A v \in {"cVeg", "gpp", "lai"} : v \in V

IsSubQuery(c) == c.op = "search" /\ "source_id" \in DOMAIN c.kwargs

\* the sub-queries issued so far, in the order issued
SubQueries == SelectSeq(calls, IsSubQuery)

SubTriple(c) == << c.kwargs.source_id, c.kwargs.member_id, c.kwargs.grid_label >>

RECURSIVE SumLen(_)
SumLen(tables) ==
    IF tables = << >> THEN 0 ELSE Len(Head(tables)) + SumLen(Tail(tables))

\* the number of rows the sub-queries before the g-th returned
Offset(g) == SumLen(SubSeq(responses, 1, g - 1))

\* the for loop has run to its end (no search raised)
LoopEnded ==
    \/ pc = "loop" /\ idx > Len(groups)
    \/ pc = "done"
    \/ pc = "aborted" /\ error = "ValueError"

\* a sub-query (not the initial search) has raised
SubQueryFailed == error = "SearchError" /\ Len(SubQueries) >= 1

\* the position of the first row of group g in df, 0 when there is none
FirstIndex(df, g) ==
    IF \E k \in DOMAIN df : GroupKey(df[k]) = g
    THEN CHOOSE k \in DOMAIN df :
            /\ GroupKey(df[k]) = g
            /\ \A j \in 1..(k - 1) : GroupKey(df[j]) # g
    ELSE 0

InitialGroups == {GroupKey(initial[k]) : k \in DOMAIN initial}

CompleteInitially(g) == CarbonCycleRule(VarsOf(GroupRows(initial, g)))

\* g is a complete group of the initial result and no complete group of the
\* same model and grid has a smaller member
SurvivesFiltering(g) ==
    /\ g \in InitialGroups
    /\ CompleteInitially(g)
    /\ \A h \in InitialGroups :
        (h[1] = g[1] /\ h[3] = g[3] /\ MemberRank(h[2]) < MemberRank(g[2]))
            => ~CompleteInitially(h)

(***************************************************************************)
(* Properties of has_carbon_cycle (checked under PredSpec).                *)
(***************************************************************************)
\* C1: has_carbon_cycle returns a boolean for every variable set, never fails
\* to return, and returns True exactly when the set holds one of {cSoil,
\* cSoilAbove1m}, one of {nbp, netAtmosLandCO2Flux} and all of {cVeg, gpp, lai}.
C1_PredicateIsTheRule ==
    /\ ~evaluated => ENABLED Evaluate
    /\ evaluated =>
        /\ verdict \in BOOLEAN
        /\ verdict = CarbonCycleRule(VarsOf(arg_df))

\* C1 witness: a set that passes through the second alternative of the soil
\* pair and the first of the flux pair has been evaluated to True.
C1_Witness ==
    /\ evaluated
    /\ verdict
    /\ VarsOf(arg_df) = {"cSoilAbove1m", "nbp", "cVeg", "gpp", "lai"}

\* C2: a variable set that lacks cVeg, gpp or lai is evaluated to False,
\* whatever else it holds.
C2_MissingRequiredIsFalse ==
    (evaluated /\ \E v \in {"cVeg", "gpp", "lai"} : v \notin VarsOf(arg_df))
        => verdict = FALSE

\* C2 witness: the set with both soil and both flux variables but no cVeg has
\* been evaluated.
C2_Witness ==
    /\ evaluated
    /\ ~verdict
    /\ VarsOf(arg_df) =
        {"cSoil", "cSoilAbove1m", "nbp", "netAtmosLandCO2Flux", "gpp", "lai"}

\* df holds one of the two sets of variables named as sufficient
CoversBaseSet(df) ==
    \/ {"cVeg", "gpp", "lai", "cSoil", "nbp"} \subseteq VarsOf(df)
    \/ {"cSoilAbove1m", "netAtmosLandCO2Flux", "cVeg", "gpp", "lai"}
            \subseteq VarsOf(df)

\* C3: every superset of {cVeg, gpp, lai, cSoil, nbp} and every superset of
\* {cSoilAbove1m, netAtmosLandCO2Flux, cVeg, gpp, lai} is evaluated to True, and
\* adding a variable to such a set leaves the result True.
C3_SupersetsAreTrue ==
    /\ [](evaluated /\ CoversBaseSet(arg_df) => verdict = TRUE)
    /\ [][(evaluated /\ CoversBaseSet(arg_df) /\ verdict
                /\ VarsOf(arg_df) \subseteq VarsOf(arg_df'))
            => verdict']_vars

\* C3 witness: the second base set, with cSoil added to it afterwards, has been
\* evaluated to True.
C3_Witness ==
    /\ evaluated
    /\ verdict
    /\ arg_df = Append(GroupTable({"cSoilAbove1m", "netAtmosLandCO2Flux",
                                   "cVeg", "gpp", "lai"}),
                       Row(OneGroup, "cSoil"))

(***************************************************************************)
(* Properties of the script (checked under Spec).                          *)
(***************************************************************************)
\* C4: when the loop has ended without a failed search, exactly one sub-query
\* was issued per entry of groups.index, the k-th restricted to the k-th
\* group's source_id, member_id and grid_label; no group twice, none skipped.
C4_OneSubQueryPerGroup ==
    LET sq == SubQueries IN
    /\ \A a, b \in DOMAIN sq : a # b => SubTriple(sq[a]) # SubTriple(sq[b])
    /\ LoopEnded =>
        /\ Len(sq) = Len(groups)
        /\ \A k \in DOMAIN groups :
            /\ sq[k].kwargs.source_id = groups[k][1]
            /\ sq[k].kwargs.member_id = groups[k][2]
            /\ sq[k].kwargs.grid_label = groups[k][3]

\* C4 witness: the loop has ended over at least two groups.
C4_Witness == LoopEnded /\ Len(groups) >= 2 /\ pc = "done"

\* C5 as stated, N = 0 included: once the loop has ended and no search has
\* raised, the run ends with a combined table whose row count is the sum of
\* the row counts of the sub-query results.
C5_RunCompletesWithSum ==
    (pc \in {"done", "aborted"} /\ error # "SearchError")
        => (pc = "done" /\ Len(cat_df) = SumLen(responses))

\* the part of C5 that the script meets: a run that completes has as many rows
\* in cat.df as the sub-queries returned
CompletedRunHasSum == pc = "done" => Len(cat_df) = SumLen(responses)

\* C6: in the combined table the rows of the g-th sub-query sit, in the order
\* returned, right after the rows of the sub-queries before it; and the
\* sub-queries are issued in the order in which their groups are first
\* encountered in the table of the initial search.
C6_RowsInGroupIterationOrder ==
    LET sq == SubQueries
        first == [k \in DOMAIN sq |-> FirstIndex(initial, SubTriple(sq[k]))]
    IN
    /\ pc = "done" =>
        /\ Len(cat_df) = SumLen(responses)
        /\ \A g \in DOMAIN responses : \A j \in DOMAIN responses[g] :
            cat_df[Offset(g) + j] = responses[g][j]
    /\ \A a, b \in DOMAIN sq : a < b => (first[a] > 0 /\ first[a] < first[b])
    /\ \A g \in DOMAIN responses : \A j \in DOMAIN responses[g] :
        GroupKey(responses[g][j]) = SubTriple(sq[g])

\* C6 witness: a run has completed over two groups whose sub-queries returned
\* several rows each.
C6_Witness ==
    /\ pc = "done"
    /\ Len(responses) >= 2
    /\ Len(responses[1]) >= 2
    /\ Len(responses[2]) >= 2

\* C7: once a sub-query has raised, the run is aborted: the failed sub-query
\* is the last call ever made, it was made once, the groups after it are not
\* queried, no search is outstanding, no step follows, and cat.df is still
\* the table the last successful sub-query returned, not a concatenation.
C7_FailureAborts ==
    LET sq == SubQueries IN
    (error = "SearchError" /\ Len(sq) >= 1) =>
        /\ pc = "aborted"
        /\ outstanding = {}
        /\ IsSubQuery(calls[Len(calls)])
        /\ Len(sq) = Len(responses) + 1
        /\ Len(sq) = idx
        /\ idx <= Len(groups)
        /\ SubTriple(sq[idx]) = groups[idx]
        /\ \A a, b \in DOMAIN sq : a # b => SubTriple(sq[a]) # SubTriple(sq[b])
        /\ dfs = responses
        /\ responses # << >> => cat_df = responses[Len(responses)]
        /\ ~ENABLED Next

\* C7 witness: the sub-query of the second of three groups has raised after
\* the first one returned rows.
C7_Witness ==
    /\ SubQueryFailed
    /\ Len(responses) = 1
    /\ Len(groups) = 3

\* C8: at most one search is outstanding, and it is the call made last: the
\* initial search has returned before any later call, and a sub-query has
\* returned before the next one is issued.
C8_OneSearchAtATime ==
    /\ Cardinality(outstanding) <= 1
    /\ outstanding \subseteq {Len(calls)}
    /\ outstanding # {} <=> pc \in {"initial_search", "sub_search"}

\* C8 witness: the second sub-query is outstanding, alone.
C8_Witness ==
    /\ pc = "sub_search"
    /\ outstanding = {Len(calls)}
    /\ Len(SubQueries) = 2

\* C9: a sub-query is issued only after the initial search, remove_incomplete,
\* remove_ensembles and model_groups, in that order, and only for a group of
\* the initial result that satisfies the completeness rule and is the smallest
\* complete member of its model and grid.
C9_OnlySurvivingGroupsQueried ==
    /\ \A k \in DOMAIN calls :
        IsSubQuery(calls[k]) =>
            /\ k > 4
            /\ calls[1].op = "search" /\ ~IsSubQuery(calls[1])
            /\ calls[2].op = "remove_incomplete"
            /\ calls[3].op = "remove_ensembles"
            /\ calls[4].op = "model_groups"
    /\ LET survivors == {g \in InitialGroups : SurvivesFiltering(g)} IN
       \A k \in DOMAIN calls :
            IsSubQuery(calls[k]) => SubTriple(calls[k]) \in survivors

\* C9 witness: a sub-query has been issued in a run whose initial result held
\* an incomplete group and a complete group that remove_ensembles dropped.
C9_Witness ==
    /\ Len(SubQueries) >= 1
    /\ \E g \in InitialGroups : ~CompleteInitially(g)
    /\ \E g \in InitialGroups : CompleteInitially(g) /\ ~SurvivesFiltering(g)

\* C10: all sub-queries carry experiment_id historical, frequency mon and the
\* same list of 27 distinct variables besides the group triple; the list holds
\* the 7 variables of the initial search, hence every variable the queried
\* group had in the initial result.
C10_FixedFiltersCoverInitial ==
    LET sq == SubQueries IN
    \A k \in DOMAIN sq :
        LET kw == sq[k].kwargs IN
        /\ DOMAIN kw = {"source_id", "member_id", "grid_label",
                        "experiment_id", "variable_id", "frequency"}
        /\ kw.experiment_id = "historical"
        /\ kw.frequency = "mon"
        /\ Len(kw.variable_id) = 27
        /\ Cardinality(Range(kw.variable_id)) = 27
        /\ kw.variable_id = sq[1].kwargs.variable_id
        /\ Len(calls[1].kwargs.variable_id) = 7
        /\ calls[1].kwargs.experiment_id = kw.experiment_id
        /\ calls[1].kwargs.frequency = kw.frequency
        /\ Range(calls[1].kwargs.variable_id) \subseteq Range(kw.variable_id)
        /\ VarsOf(GroupRows(initial, SubTriple(sq[k])))
                \subseteq Range(kw.variable_id)

\* C10 witness: two sub-queries have been issued.
C10_Witness == Len(SubQueries) >= 2

====
